---------------------------- MODULE Spec2Model ----------------------------
(***************************************************************************)
(* Model of the Nuvoton UART ISP loader (src/isp_loader.py): the ISPLoader *)
(* session object, its commands, the chunked upload writeBinaryMCU, and    *)
(* the two polling drivers main and mcuLoadSoftware.                       *)
(*                                                                         *)
(* Bytes are naturals 0..255, buffers are sequences; Python index i is     *)
(* TLA+ index i + 1.  The serial device is the environment: each read      *)
(* returns one of the responses of Response, chosen nondeterministically.  *)
(***************************************************************************)
EXTENDS Integers, Sequences, FiniteSets, TLC

(***************************************************************************)
(* Program constants (class ISPCommand and the literals of ISPLoader).     *)
(***************************************************************************)
CMD_UPDATE_APROM == 160
CMD_READ_CONFIG == 162
CMD_ERASE_ALL == 163
CMD_SYNC_PACKNO == 164
CMD_GET_FWVER == 166
CMD_RUN_APROM == 171
CMD_RUN_LDROM == 172
CMD_RESET == 173
CMD_CONNECT == 174
CMD_GET_DEVICEID == 177
BUFFER_LEN == 64
\* serial read timeouts, in milliseconds
TIMEOUT_DEFAULT == 500
TIMEOUT_CONNECT == 10
TIMEOUT_ERASE == 5000
TIMEOUT_PROGRAM == 10000
\* length of the first upload packet's header and of every later packet's
HEADER_FIRST == 16
HEADER_NEXT == 8
\* the polling loops add this to timeout_counter per iteration
POLL_STEP == 10

(***************************************************************************)
(* Bounds of the model.                                                    *)
(***************************************************************************)
\* commands that advance package_no are not started beyond this value
MaxPackageNo == 7
\* longest firmware image of the upload specification
MaxImageLen == 120
\* the caller's budget mcu_connection_timeout is POLL_STEP * (0..MaxBudgetSteps)
MaxBudgetSteps == 2

VARIABLES
    \* ---- fields of ISPLoader
    isp_buffer,          \* list of bytes: the packet being built / last sent
    mcu_connect_status,  \* BOOLEAN
    package_no,          \* Python int
    firmware_version,
    device_id,
    config_0,
    config_1,
    timeout,             \* isp_serial.timeout, in ms
    \* ---- the last method call, as its caller and the serial channel saw it
    op,                  \* name of the last method called ("" before any)
    was_connected,       \* mcu_connect_status when it was called
    ret,                 \* "True", "False", "None" (fell off the end), "raise"
    exc,                 \* "" or the exception that ended the call
    wire,                \* the call's writes, in order, each with its read
    \* ---- commands since the last successful sync
    n_ok,                \* query/erase commands that returned True
    clean,               \* TRUE while nothing else was called since that sync
    \* ---- the drivers main / mcuLoadSoftware
    entry,               \* "api" (no driver), "main", "mcuLoadSoftware"
    pc,
    flags,               \* the stat flags of the driver
    mcu_connection_timeout,
    timeout_counter,
    return_dict,
    iters,               \* polling iterations started (saturates)
    iter_failed,         \* a sync or erase-all failed in this iteration
    iter_upload,         \* an update-APROM packet was written in this iteration
    upload_ret,          \* return value of the driver's writeBinaryMCU call
    any_io,              \* a packet was written since the driver started
    terminal,            \* the terminal commands the driver transmitted
    isp_serial_open      \* the port serial.Serial(...) opened is still open

session == <<isp_buffer, mcu_connect_status, package_no, firmware_version,
             device_id, config_0, config_1, timeout>>
call == <<op, was_connected, ret, exc, wire>>
since == <<n_ok, clean>>
driver == <<entry, pc, flags, mcu_connection_timeout, timeout_counter,
            return_dict, iters, iter_failed, iter_upload, upload_ret, any_io,
            terminal, isp_serial_open>>
vars == <<session, call, since, driver>>

(***************************************************************************)
(* Byte helpers.                                                           *)
(***************************************************************************)
\* (n >> (8*k)) & 0xFF
ByteOf(n, k) == (n \div (256 ^ k)) % 256

\* s[o] | s[o+1] << 8 | s[o+2] << 16 | s[o+3] << 24, o a Python offset
LE32(s, o) == s[o + 1] + s[o + 2] * 256 + s[o + 3] * 65536 + s[o + 4] * 16777216

Zeros(n) == [i \in 1..n |-> 0]

\* s[lo] + ... + s[hi] (1-based), the range split in halves
RECURSIVE SumRange(_, _, _)
SumRange(s, lo, hi) ==
    IF lo > hi THEN 0
    ELSE IF lo = hi THEN s[lo]
    ELSE SumRange(s, lo, (lo + hi) \div 2) + SumRange(s, (lo + hi) \div 2 + 1, hi)

\* checksum = 0; for i in buffer: checksum += i
SumBytes(s) == SumRange(s, 1, Len(s))

\* bufferClear: 64 zero bytes
bufferClear == Zeros(BUFFER_LEN)

\* appendBufferEmptyValues(length): `length` zero bytes
appendBufferEmptyValues(length) == Zeros(length)

\* updatePackageNumber: bytes 4..7 of the buffer hold package_no, little-endian
updatePackageNumber(buf, pn) ==
    [buf EXCEPT ![5] = ByteOf(pn, 0), ![6] = ByteOf(pn, 1),
                ![7] = ByteOf(pn, 2), ![8] = ByteOf(pn, 3)]

\* calculateChecksum(resp), reading self.isp_buffer and self.package_no
calculateChecksum_NoSeq(buf, pn, resp) ==
    IF Len(resp) > 7
    THEN (resp[1] + resp[2] * 256) = SumBytes(buf) % 65536
    ELSE FALSE

calculateChecksum(buf, pn, resp) ==
    IF Len(resp) > 7
    THEN LET checksum == SumBytes(buf) % 65536
             package_checksum == resp[1] + resp[2] * 256
         IN  IF package_checksum = checksum
             THEN (resp[8] * 16777216 + resp[7] * 65536 + resp[6] * 256 + resp[5])
                      = pn + 1
             ELSE FALSE
    ELSE FALSE

(***************************************************************************)
(* The device: what a read can return after packet `pkt` was written while *)
(* the session's package number was `pn`.                                  *)
(***************************************************************************)
RespKinds == {"empty", "short", "good8", "good", "badsum", "badseq"}

\* a full-length answer with checksum field c and sequence field s; result
\* bytes 8..15 are 9, 10, ..., 16
Answer(c, s) ==
    <<ByteOf(c, 0), ByteOf(c, 1), 0, 0,
      ByteOf(s, 0), ByteOf(s, 1), ByteOf(s, 2), ByteOf(s, 3),
      9, 10, 11, 12, 13, 14, 15, 16>> \o Zeros(BUFFER_LEN - 16)

Response(kind, pkt, pn) ==
    LET c == SumBytes(pkt) % 65536 IN
    CASE kind = "empty" -> <<>>
      [] kind = "short" -> SubSeq(Answer(c, pn + 1), 1, 7)
      [] kind = "good8" -> SubSeq(Answer(c, pn + 1), 1, 8)
      [] kind = "good" -> Answer(c, pn + 1)
      [] kind = "badsum" -> Answer((c + 1) % 65536, pn + 1)
      [] kind = "badseq" -> Answer(c, pn)

\* one write of `pkt` followed by one read that returned `resp`
Xfer(pkt, pn, tmo, how, resp) ==
    [pkt |-> pkt, seq |-> pn, timeout |-> tmo, read |-> how, resp |-> resp]


(***************************************************************************)
(* Bookkeeping shared by the methods.                                      *)
(***************************************************************************)
Called(name) == op' = name /\ was_connected' = mcu_connect_status

\* a successful sync starts the count of successfully executed commands
SinceSync == n_ok' = 0 /\ clean' = TRUE
\* a successful query / erase command
SinceOk == clean' = clean /\ n_ok' = (IF clean THEN n_ok + 1 ELSE 0)
\* anything else
SinceBreak == n_ok' = 0 /\ clean' = FALSE

\* self.package_no += 2
Advance_Twice(pn) == pn + 4

Advance_Not(pn) == pn

Advance(pn) == pn + 2

\* bufferClear(); isp_buffer[0] = cmd; updatePackageNumber()
CommandPacket(cmd, pn) == updatePackageNumber([bufferClear EXCEPT ![1] = cmd], pn)

\* a failed connection test that also resets the package number
NotConnected_Resets ==
    /\ ret' = "False" /\ exc' = "" /\ wire' = <<>>
    /\ SinceBreak
    /\ package_no' = 1
    /\ UNCHANGED <<isp_buffer, mcu_connect_status, firmware_version, device_id,
                   config_0, config_1, timeout>>

\* a method called while its `if self.mcu_connect_status:` is false
NotConnected ==
    /\ ret' = "False" /\ exc' = "" /\ wire' = <<>>
    /\ SinceBreak
    /\ UNCHANGED session

(***************************************************************************)
(* connectMCU                                                              *)
(***************************************************************************)
connectMCU(k) ==
    /\ Called("connectMCU")
    /\ SinceBreak
    /\ exc' = ""
    /\ IF ~mcu_connect_status
       THEN \E buf \in {CommandPacket(CMD_CONNECT, 1)} :
            \E resp \in {Response(k, buf, 1)} :
            \E ok \in {resp # <<>> /\ calculateChecksum(buf, 1, resp)} :
                /\ package_no' = 1
                /\ isp_buffer' = buf
                /\ wire' = <<Xfer(buf, 1, TIMEOUT_CONNECT, "readline", resp)>>
                /\ timeout' = (IF ok THEN TIMEOUT_DEFAULT ELSE TIMEOUT_CONNECT)
                /\ mcu_connect_status' = ok
                /\ ret' = (IF ok THEN "True" ELSE "False")
                /\ UNCHANGED <<firmware_version, device_id, config_0, config_1>>
       ELSE /\ ret' = "True" /\ wire' = <<>>
            /\ UNCHANGED session

(***************************************************************************)
(* readConfigMCU, readDeviceIDMCU, readFirmwareVersionMCU                  *)
(***************************************************************************)
\* the value `return True` / `return False` / falling off the end gives for
\* a response that did not raise
Outcome(resp, valid) ==
    IF resp = <<>> THEN "False" ELSE IF valid THEN "True" ELSE "None"

readConfigMCU(k) ==
    /\ Called("readConfigMCU")
    /\ IF mcu_connect_status
       THEN \E pn \in {Advance(package_no)} :
            \E buf \in {CommandPacket(CMD_READ_CONFIG, pn)} :
            \E resp \in {Response(k, buf, pn)} :
            \E valid \in {resp # <<>> /\ calculateChecksum(buf, pn, resp)} :
                /\ package_no' = pn
                /\ isp_buffer' = buf
                /\ wire' = <<Xfer(buf, pn, timeout, "readline", resp)>>
                /\ config_0' = (IF valid /\ Len(resp) >= 12
                                THEN LE32(resp, 8) ELSE config_0)
                /\ config_1' = (IF valid /\ Len(resp) >= 16
                                THEN LE32(resp, 12) ELSE config_1)
                /\ IF valid /\ Len(resp) < 16
                   THEN ret' = "raise" /\ exc' = "IndexError"
                   ELSE ret' = Outcome(resp, valid) /\ exc' = ""
                /\ IF ret' = "True" THEN SinceOk ELSE SinceBreak
                /\ UNCHANGED <<mcu_connect_status, firmware_version, device_id,
                               timeout>>
       ELSE NotConnected

readDeviceIDMCU(k) ==
    /\ Called("readDeviceIDMCU")
    /\ IF mcu_connect_status
       THEN \E pn \in {Advance(package_no)} :
            \E buf \in {CommandPacket(CMD_GET_DEVICEID, pn)} :
            \E resp \in {Response(k, buf, pn)} :
            \E valid \in {resp # <<>> /\ calculateChecksum(buf, pn, resp)} :
                /\ package_no' = pn
                /\ isp_buffer' = buf
                /\ wire' = <<Xfer(buf, pn, timeout, "readline", resp)>>
                /\ device_id' = (IF valid /\ Len(resp) >= 12
                                 THEN LE32(resp, 8) ELSE device_id)
                /\ IF valid /\ Len(resp) < 12
                   THEN ret' = "raise" /\ exc' = "IndexError"
                   ELSE ret' = Outcome(resp, valid) /\ exc' = ""
                /\ IF ret' = "True" THEN SinceOk ELSE SinceBreak
                /\ UNCHANGED <<mcu_connect_status, firmware_version, config_0,
                               config_1, timeout>>
       ELSE NotConnected

readFirmwareVersionMCU(k) ==
    /\ Called("readFirmwareVersionMCU")
    /\ IF mcu_connect_status
       THEN \E pn \in {Advance(package_no)} :
            \E buf \in {CommandPacket(CMD_GET_FWVER, pn)} :
            \E resp \in {Response(k, buf, pn)} :
            \E valid \in {resp # <<>> /\ calculateChecksum(buf, pn, resp)} :
                /\ package_no' = pn
                /\ isp_buffer' = buf
                /\ wire' = <<Xfer(buf, pn, timeout, "readline", resp)>>
                /\ firmware_version' = (IF valid /\ Len(resp) >= 9
                                        THEN resp[9] ELSE firmware_version)
                /\ IF valid /\ Len(resp) < 9
                   THEN ret' = "raise" /\ exc' = "IndexError"
                   ELSE ret' = Outcome(resp, valid) /\ exc' = ""
                /\ IF ret' = "True" THEN SinceOk ELSE SinceBreak
                /\ UNCHANGED <<mcu_connect_status, device_id, config_0, config_1,
                               timeout>>
       ELSE NotConnected

(***************************************************************************)
(* resetMCU, runAPROM, runLDROM                                            *)
(***************************************************************************)
Leave(cmd, k) ==
    IF mcu_connect_status
    THEN \E pn \in {Advance(package_no)} :
         \E buf \in {CommandPacket(cmd, pn)} :
             /\ package_no' = pn
             /\ isp_buffer' = buf
             /\ wire' = <<Xfer(buf, pn, timeout, "readline", Response(k, buf, pn))>>
             /\ mcu_connect_status' = FALSE
             /\ ret' = "True" /\ exc' = ""
             /\ SinceBreak
             /\ UNCHANGED <<firmware_version, device_id, config_0, config_1,
                            timeout>>
    ELSE NotConnected

resetMCU(k) == Called("resetMCU") /\ Leave(CMD_RESET, k)

runAPROM(k) == Called("runAPROM") /\ Leave(CMD_RUN_APROM, k)

runLDROM(k) == Called("runLDROM") /\ Leave(CMD_RUN_LDROM, k)

(***************************************************************************)
(* syncMCU                                                                 *)
(***************************************************************************)
SyncPacket ==
    [CommandPacket(CMD_SYNC_PACKNO, 1) EXCEPT
        ![9] = 1, ![10] = ByteOf(1, 1), ![11] = ByteOf(1, 2), ![12] = ByteOf(1, 3)]

syncMCU(k) ==
    /\ Called("syncMCU")
    /\ IF mcu_connect_status
       THEN \E buf \in {SyncPacket} :
            \E resp \in {Response(k, buf, 1)} :
            \E valid \in {resp # <<>> /\ calculateChecksum(buf, 1, resp)} :
                /\ package_no' = 1
                /\ isp_buffer' = buf
                /\ wire' = <<Xfer(buf, 1, timeout, "readline", resp)>>
                /\ ret' = Outcome(resp, valid) /\ exc' = ""
                /\ IF valid THEN SinceSync ELSE SinceBreak
                /\ UNCHANGED <<mcu_connect_status, firmware_version, device_id,
                               config_0, config_1, timeout>>
       ELSE NotConnected

(***************************************************************************)
(* eraseAllMCU                                                             *)
(***************************************************************************)
eraseAllMCU(k) ==
    /\ Called("eraseAllMCU")
    /\ IF mcu_connect_status
       THEN \E pn \in {Advance(package_no)} :
            \E buf \in {CommandPacket(CMD_ERASE_ALL, pn)} :
            \E resp \in {Response(k, buf, pn)} :
            \E valid \in {resp # <<>> /\ calculateChecksum(buf, pn, resp)} :
                /\ package_no' = pn
                /\ isp_buffer' = buf
                /\ wire' = <<Xfer(buf, pn, TIMEOUT_ERASE, "readline", resp)>>
                /\ timeout' = (IF valid THEN TIMEOUT_DEFAULT ELSE TIMEOUT_ERASE)
                /\ ret' = Outcome(resp, valid) /\ exc' = ""
                /\ IF valid THEN SinceOk ELSE SinceBreak
                /\ UNCHANGED <<mcu_connect_status, firmware_version, device_id,
                               config_0, config_1>>
       ELSE NotConnected

(***************************************************************************)
(* writeDataToBuffer and writeBinaryMCU                                    *)
(***************************************************************************)
\* the buffer writeDataToBuffer builds on a connected session whose
\* package_no it has advanced to pn
HeaderPacket(pn, file_len, buffer_size, address) ==
    [updatePackageNumber(
         [appendBufferEmptyValues(buffer_size) EXCEPT ![1] = CMD_UPDATE_APROM], pn)
     EXCEPT ![9] = ByteOf(address, 0), ![10] = ByteOf(address, 1),
            ![11] = ByteOf(address, 2), ![12] = ByteOf(address, 3),
            ![13] = ByteOf(file_len, 0), ![14] = ByteOf(file_len, 1),
            ![15] = ByteOf(file_len, 2), ![16] = ByteOf(file_len, 3)]

\* writeDataToBuffer without `self.package_no += 2`
writeDataToBuffer_Stale(connected, buf, pn, file_len, buffer_size, address) ==
    IF connected
    THEN [pn |-> pn, buf |-> HeaderPacket(pn, file_len, buffer_size, address)]
    ELSE [pn |-> pn, buf |-> buf]

\* the buffer and package number writeDataToBuffer leaves, called with the
\* buffer `buf` and package number `pn`
writeDataToBuffer(connected, buf, pn, file_len, buffer_size, address) ==
    IF connected
    THEN [pn |-> Advance(pn),
          buf |-> HeaderPacket(Advance(pn), file_len, buffer_size, address)]
    ELSE [pn |-> pn, buf |-> buf]

\* a packet started inside the loop without updatePackageNumber()
NextPacket_Stale(pn) == appendBufferEmptyValues(HEADER_NEXT)

\* the first 8 bytes of a packet started inside the loop
NextPacket(pn) == updatePackageNumber(appendBufferEmptyValues(HEADER_NEXT), pn)

\* a loop iteration that starts the next packet without appending its byte
LoopBody_DropFirst(st, b, kMid) ==
    IF st.start_byte_len % BUFFER_LEN = 0
    THEN [buf |-> NextPacket(Advance(st.pn)),
          start_byte_len |-> HEADER_NEXT,
          pn |-> Advance(st.pn),
          wire |-> Append(st.wire,
                       Xfer(st.buf, st.pn, TIMEOUT_PROGRAM, "read",
                            Response(kMid, st.buf, st.pn)))]
    ELSE [st EXCEPT !.buf = Append(st.buf, b),
                    !.start_byte_len = st.start_byte_len + 1]

\* one iteration of the `for i in range(file_size)` loop, appending byte b:
\* st holds isp_buffer, start_byte_len, package_no and the transfers so far
LoopBody(st, b, kMid) ==
    IF st.start_byte_len % BUFFER_LEN = 0
    THEN [buf |-> Append(NextPacket(Advance(st.pn)), b),
          start_byte_len |-> HEADER_NEXT + 1,
          pn |-> Advance(st.pn),
          wire |-> Append(st.wire,
                       Xfer(st.buf, st.pn, TIMEOUT_PROGRAM, "read",
                            Response(kMid, st.buf, st.pn)))]
    ELSE [st EXCEPT !.buf = Append(st.buf, b),
                    !.start_byte_len = st.start_byte_len + 1]

\* the iterations for file_content[lo..hi] (1-based) in order, from state st.
\* The range is split in halves, and the state after the first half is a
\* bound value before the second half starts: the evaluation stays shallow.
RECURSIVE ProgramLoop(_, _, _, _, _)
ProgramLoop(lo, hi, file_content, st, kMid) ==
    IF lo > hi
    THEN st
    ELSE IF lo = hi
         THEN LoopBody(st, file_content[lo], kMid)
         ELSE CHOOSE after \in
                  {ProgramLoop((lo + hi) \div 2 + 1, hi, file_content, half, kMid) :
                      half \in {ProgramLoop(lo, (lo + hi) \div 2, file_content,
                                            st, kMid)}} : TRUE

\* the final flush: pad with zeros while BUFFER_LEN - start_byte_len != 0
Padded_Not(buf, sbl) == buf

Padded(buf, sbl) == buf \o Zeros(BUFFER_LEN - sbl)

\* writeBinaryMCU(file_name): the file holds file_content, or cannot be read;
\* kMid answers the packets written inside the loop, kFinal the last one
writeBinaryMCU(file_content, readable, kMid, kFinal) ==
    /\ Called("writeBinaryMCU")
    /\ SinceBreak
    /\ IF ~readable
       THEN /\ ret' = "raise" /\ exc' = "OSError" /\ wire' = <<>>
            /\ UNCHANGED session
       ELSE \E hdr \in {writeDataToBuffer(mcu_connect_status, <<>>, package_no,
                                          Len(file_content), HEADER_FIRST, 0)} :
            \E st \in {ProgramLoop(1, Len(file_content), file_content,
                           [buf |-> hdr.buf, start_byte_len |-> HEADER_FIRST,
                            pn |-> hdr.pn, wire |-> <<>>], kMid)} :
            \E last \in {Padded(st.buf, st.start_byte_len)} :
            \E resp \in {Response(kFinal, last, st.pn)} :
                /\ isp_buffer' = last
                /\ package_no' = st.pn
                /\ timeout' = TIMEOUT_PROGRAM
                /\ wire' = Append(st.wire,
                               Xfer(last, st.pn, TIMEOUT_PROGRAM, "read", resp))
                /\ ret' = (IF calculateChecksum(last, st.pn, resp)
                           THEN "True" ELSE "False")
                /\ exc' = ""
                /\ UNCHANGED <<mcu_connect_status, firmware_version, device_id,
                               config_0, config_1>>

\* the firmware image of length n read from the file: no byte of it is zero
Image(n) == [i \in 1..n |-> 1 + ((7 * i) % 255)]

(***************************************************************************)
(* The session after ISPLoader.__init__, and the state of a program that   *)
(* has not entered a driver.                                               *)
(***************************************************************************)
InitSession ==
    /\ isp_buffer = <<>>
    /\ mcu_connect_status = FALSE
    /\ package_no = 1
    /\ firmware_version = 0
    /\ device_id = 0
    /\ config_0 = 0
    /\ config_1 = 0
    /\ timeout = TIMEOUT_DEFAULT
    /\ op = "" /\ was_connected = FALSE /\ ret = "None" /\ exc = "" /\ wire = <<>>
    /\ n_ok = 0 /\ clean = FALSE

NoFlags == [erase_all |-> FALSE, reset |-> FALSE, run_aprom |-> FALSE,
            run_ldrom |-> FALSE, device_id |-> FALSE,
            firmware_version |-> FALSE, configs |-> FALSE]

InitDriver(e, f, t) ==
    /\ entry = e
    /\ pc = "loop"
    /\ flags = f
    /\ mcu_connection_timeout = t
    /\ timeout_counter = 0
    /\ return_dict = [Program |-> IF e = "mcuLoadSoftware" THEN "Err" ELSE "",
                      Timeout |-> IF e = "main" THEN "Timeout" ELSE "budget",
                      Erase |-> "", FirmwareNo |-> "", DeviceID |-> "",
                      Config0 |-> "", Config1 |-> ""]
    /\ iters = 0
    /\ iter_failed = FALSE
    /\ iter_upload = FALSE
    /\ upload_ret = "None"
    /\ any_io = FALSE
    /\ terminal = <<>>
    /\ isp_serial_open = TRUE

Init == InitSession /\ InitDriver("api", NoFlags, 0)

(***************************************************************************)
(* Spec: a caller invoking the methods of one session in any order.        *)
(***************************************************************************)
\* image lengths around the first packet's capacity
ApiImageLens == {0, 1, BUFFER_LEN - HEADER_FIRST, BUFFER_LEN - HEADER_FIRST + 1}

\* a command that advances package_no is started only below the bound
Room == ~mcu_connect_status \/ Advance(package_no) <= MaxPackageNo

CallConnect == \E k \in RespKinds : connectMCU(k) /\ UNCHANGED driver

CallReadConfig == Room /\ \E k \in RespKinds : readConfigMCU(k) /\ UNCHANGED driver

CallReadDeviceID == Room /\ \E k \in RespKinds : readDeviceIDMCU(k) /\ UNCHANGED driver

CallReadFirmwareVersion ==
    Room /\ \E k \in RespKinds : readFirmwareVersionMCU(k) /\ UNCHANGED driver

CallReset == Room /\ \E k \in RespKinds : resetMCU(k) /\ UNCHANGED driver

CallRunAPROM == Room /\ \E k \in RespKinds : runAPROM(k) /\ UNCHANGED driver

CallRunLDROM == Room /\ \E k \in RespKinds : runLDROM(k) /\ UNCHANGED driver

CallSync == \E k \in RespKinds : syncMCU(k) /\ UNCHANGED driver

CallEraseAll == Room /\ \E k \in RespKinds : eraseAllMCU(k) /\ UNCHANGED driver

\* the answers to choose for the reads inside the loop: there is none when
\* the image fits the first packet
MidKinds(n) == IF n > BUFFER_LEN - HEADER_FIRST THEN RespKinds ELSE {"empty"}

CallWriteBinary ==
    /\ package_no + 4 <= MaxPackageNo
    /\ \/ \E n \in ApiImageLens, kFinal \in RespKinds : \E kMid \in MidKinds(n) :
          \E file_content \in {Image(n)} :
             writeBinaryMCU(file_content, TRUE, kMid, kFinal)
       \/ writeBinaryMCU(<<>>, FALSE, "empty", "empty")
    /\ UNCHANGED driver

Next ==
    \/ CallConnect
    \/ CallReadConfig
    \/ CallReadDeviceID
    \/ CallReadFirmwareVersion
    \/ CallReset
    \/ CallRunAPROM
    \/ CallRunLDROM
    \/ CallSync
    \/ CallEraseAll
    \/ CallWriteBinary

Spec == Init /\ [][Next]_vars

(***************************************************************************)
(* SpecUpload: uploads of every image length up to MaxImageLen, each on a  *)
(* session that connect and a successful sync have just brought to         *)
(* package_no = 1, which is where both drivers call writeBinaryMCU.        *)
(***************************************************************************)
UploadAny ==
    /\ op = "syncMCU" /\ ret = "True"
    /\ \E n \in 0..MaxImageLen, kFinal \in RespKinds : \E kMid \in MidKinds(n) :
       \E file_content \in {Image(n)} :
          writeBinaryMCU(file_content, TRUE, kMid, kFinal)
    /\ UNCHANGED driver

NextUpload ==
    \/ CallConnect
    \/ CallSync
    \/ UploadAny

SpecUpload == Init /\ [][NextUpload]_vars

(***************************************************************************)
(* SpecRun: the drivers main and mcuLoadSoftware.  Each step is one method *)
(* call with the driver's control flow up to the next call.  pc names the  *)
(* call that comes next; "sleep" is the end of a polling iteration, "done" *)
(* the print after the loop, "crashed" an uncaught exception.              *)
(* return_dict holds "" for a key that is absent, and mcuLoadSoftware's    *)
(* str(mcu_connection_timeout) as "budget".                                *)
(***************************************************************************)
\* the flag combinations of main (getopt) and of mcuLoadSoftware's arguments;
\* main's three report flags -d -v -c are given together or not at all
MainFlags ==
    {[erase_all |-> e, reset |-> r, run_aprom |-> a, run_ldrom |-> l,
      device_id |-> q, firmware_version |-> q, configs |-> q] :
        e, r, a, l, q \in BOOLEAN}

LoadFlags ==
    {[NoFlags EXCEPT !.erase_all = e, !.reset = r] : e, r \in BOOLEAN}

Budgets == {POLL_STEP * j : j \in 0..MaxBudgetSteps}

InitRun ==
    /\ InitSession
    /\ \/ \E f \in MainFlags, t \in Budgets : InitDriver("main", f, t)
       \/ \E f \in LoadFlags, t \in Budgets : InitDriver("mcuLoadSoftware", f, t)

\* the ghost count of iterations stops growing here
MaxIters == MaxBudgetSteps + 1

\* `while timeout_counter < mcu_connection_timeout:` with the counter at c
EnterLoop(c) ==
    /\ timeout_counter' = c
    /\ iter_failed' = FALSE
    /\ iter_upload' = FALSE
    /\ IF c < mcu_connection_timeout
       THEN /\ pc' = "connect"
            /\ iters' = (IF iters < MaxIters THEN iters + 1 ELSE iters)
       ELSE /\ pc' = "done"
            /\ iters' = iters

\* the calls that follow in main's body, in order, from position p on
AfterMain(p) ==
    IF p < 1 /\ flags.firmware_version THEN "fw"
    ELSE IF p < 2 /\ flags.device_id THEN "devid"
    ELSE IF p < 3 /\ flags.configs THEN "cfg"
    ELSE IF p < 4 /\ flags.erase_all THEN "erase"
    ELSE "sync2"

\* the terminal command the driver calls after the upload, "" if none
TerminalCall ==
    IF entry = "main"
    THEN IF flags.reset THEN "resetMCU"
         ELSE IF flags.run_aprom THEN "runAPROM"
         ELSE IF flags.run_ldrom THEN "runLDROM"
         ELSE ""
    ELSE IF flags.reset THEN "runAPROM" ELSE ""

\* return_dict["Timeout"] = "Not Timeout"; break
Break ==
    /\ return_dict' = [return_dict EXCEPT !.Timeout = "Not Timeout"]
    /\ pc' = "done"

SawIo == any_io' = (any_io \/ wire' # <<>>)

RunStart ==
    /\ pc = "loop"
    /\ EnterLoop(0)
    /\ UNCHANGED <<session, call, since, isp_serial_open, entry, flags, mcu_connection_timeout,
                   return_dict, upload_ret, any_io, terminal>>

\* time.sleep(0.001); timeout_counter += 10; and the loop test
RunSleep ==
    /\ pc = "sleep"
    /\ EnterLoop(timeout_counter + POLL_STEP)
    /\ UNCHANGED <<session, call, since, isp_serial_open, entry, flags, mcu_connection_timeout,
                   return_dict, upload_ret, any_io, terminal>>

RunConnect ==
    /\ pc = "connect"
    /\ \E k \in RespKinds : connectMCU(k)
    /\ SawIo
    /\ IF ret' = "True"
       THEN /\ pc' = "sync1"
            /\ timeout_counter' = (IF entry = "main" THEN 0 ELSE timeout_counter)
       ELSE /\ pc' = "sleep"
            /\ timeout_counter' = timeout_counter
    /\ UNCHANGED <<isp_serial_open, entry, flags, mcu_connection_timeout, return_dict, iters,
                   iter_failed, iter_upload, upload_ret, terminal>>

RunSync1 ==
    /\ pc = "sync1"
    /\ \E k \in RespKinds : syncMCU(k)
    /\ SawIo
    /\ IF ret' = "True"
       THEN /\ pc' = (IF entry = "main" THEN AfterMain(0)
                      ELSE IF flags.erase_all THEN "erase" ELSE "sync2")
            /\ iter_failed' = iter_failed
       ELSE /\ pc' = "sleep"
            /\ iter_failed' = TRUE
    /\ UNCHANGED <<isp_serial_open, entry, flags, mcu_connection_timeout, timeout_counter,
                   return_dict, iters, iter_upload, upload_ret, terminal>>

RunFirmwareNo ==
    /\ pc = "fw"
    /\ \E k \in RespKinds : readFirmwareVersionMCU(k)
    /\ SawIo
    /\ pc' = (IF exc' # "" THEN "crashed" ELSE AfterMain(1))
    /\ return_dict' = (IF ret' = "True"
                       THEN [return_dict EXCEPT !.FirmwareNo = firmware_version']
                       ELSE return_dict)
    /\ UNCHANGED <<isp_serial_open, entry, flags, mcu_connection_timeout, timeout_counter, iters,
                   iter_failed, iter_upload, upload_ret, terminal>>

RunDeviceID ==
    /\ pc = "devid"
    /\ \E k \in RespKinds : readDeviceIDMCU(k)
    /\ SawIo
    /\ pc' = (IF exc' # "" THEN "crashed" ELSE AfterMain(2))
    /\ return_dict' = (IF ret' = "True"
                       THEN [return_dict EXCEPT !.DeviceID = device_id']
                       ELSE return_dict)
    /\ UNCHANGED <<isp_serial_open, entry, flags, mcu_connection_timeout, timeout_counter, iters,
                   iter_failed, iter_upload, upload_ret, terminal>>

RunConfigs ==
    /\ pc = "cfg"
    /\ \E k \in RespKinds : readConfigMCU(k)
    /\ SawIo
    /\ pc' = (IF exc' # "" THEN "crashed" ELSE AfterMain(3))
    /\ return_dict' = (IF ret' = "True"
                       THEN [return_dict EXCEPT !.Config0 = config_0',
                                                !.Config1 = config_1']
                       ELSE return_dict)
    /\ UNCHANGED <<isp_serial_open, entry, flags, mcu_connection_timeout, timeout_counter, iters,
                   iter_failed, iter_upload, upload_ret, terminal>>

RunErase ==
    /\ pc = "erase"
    /\ \E k \in RespKinds : eraseAllMCU(k)
    /\ SawIo
    /\ pc' = "sync2"
    /\ IF ret' = "True"
       THEN /\ return_dict' = [return_dict EXCEPT !.Erase = "OK"]
            /\ flags' = (IF entry = "mcuLoadSoftware"
                         THEN [flags EXCEPT !.erase_all = FALSE] ELSE flags)
            /\ iter_failed' = iter_failed
       ELSE /\ return_dict' = [return_dict EXCEPT !.Erase = "Checksum Error"]
            /\ flags' = flags
            /\ iter_failed' = TRUE
    /\ UNCHANGED <<isp_serial_open, entry, mcu_connection_timeout, timeout_counter, iters,
                   iter_upload, upload_ret, terminal>>

RunSync2 ==
    /\ pc = "sync2"
    /\ \E k \in RespKinds : syncMCU(k)
    /\ SawIo
    /\ IF ret' = "True"
       THEN /\ return_dict' = [return_dict EXCEPT !.Program = "OK"]
            /\ pc' = "write"
            /\ iter_failed' = iter_failed
       ELSE /\ return_dict' = [return_dict EXCEPT !.Program = "Sync Error"]
            /\ pc' = "sleep"
            /\ iter_failed' = TRUE
    /\ UNCHANGED <<isp_serial_open, entry, flags, mcu_connection_timeout, timeout_counter, iters,
                   iter_upload, upload_ret, terminal>>

\* isp_loader.writeBinaryMCU(binary_file), its result dropped; then, with no
\* terminal command to call, the break
RunWrite ==
    /\ pc = "write"
    /\ \/ \E n \in ApiImageLens, kFinal \in RespKinds : \E kMid \in MidKinds(n) :
          \E file_content \in {Image(n)} :
             writeBinaryMCU(file_content, TRUE, kMid, kFinal)
       \/ writeBinaryMCU(<<>>, FALSE, "empty", "empty")
    /\ SawIo
    /\ upload_ret' = ret'
    /\ iter_upload' = (wire' # <<>>)
    /\ IF exc' # ""
       THEN pc' = "crashed" /\ return_dict' = return_dict
       ELSE IF TerminalCall # ""
            THEN pc' = "terminal" /\ return_dict' = return_dict
            ELSE Break
    /\ UNCHANGED <<isp_serial_open, entry, flags, mcu_connection_timeout, timeout_counter, iters,
                   iter_failed, terminal>>

RunTerminal ==
    /\ pc = "terminal"
    /\ \E k \in RespKinds :
          CASE TerminalCall = "resetMCU" -> resetMCU(k)
            [] TerminalCall = "runAPROM" -> runAPROM(k)
            [] TerminalCall = "runLDROM" -> runLDROM(k)
    /\ SawIo
    /\ terminal' = terminal \o [i \in 1..Len(wire') |-> wire'[i].pkt[1]]
    /\ Break
    /\ UNCHANGED <<isp_serial_open, entry, flags, mcu_connection_timeout, timeout_counter, iters,
                   iter_failed, iter_upload, upload_ret>>

NextRun ==
    \/ RunStart
    \/ RunSleep
    \/ RunConnect
    \/ RunSync1
    \/ RunFirmwareNo
    \/ RunDeviceID
    \/ RunConfigs
    \/ RunErase
    \/ RunSync2
    \/ RunWrite
    \/ RunTerminal

SpecRun == InitRun /\ [][NextRun]_vars

(***************************************************************************)
(* Properties of the session's methods (Spec, SpecUpload).                 *)
(***************************************************************************)
\* the last transfer of the last call
LastXfer == wire[Len(wire)]

\* the methods that validate the response to their (last) packet
ValidatingOps == {"connectMCU", "readConfigMCU", "readDeviceIDMCU",
                  "readFirmwareVersionMCU", "syncMCU", "eraseAllMCU",
                  "writeBinaryMCU"}

\* the last call took the response to its last packet as valid: it returned
\* True, or went on to read the result fields and raised there
Accepted == ret = "True" \/ exc = "IndexError"

\* what the claim requires of response r to packet p sent under sequence n
ShouldAccept(p, n, r) ==
    /\ Len(r) >= 8
    /\ SumBytes(p) % 65536 = r[1] + 256 * r[2]
    /\ LE32(r, 4) = n + 1

\* C1: a response is accepted if and only if it has at least 8 bytes, its
\* bytes 0..1 hold the sum modulo 65536 of the bytes of the packet that was
\* sent, and its bytes 4..7 hold the sequence number the packet was sent
\* under plus 1; in particular a response of fewer than 8 bytes is rejected.
C1_ChecksumIff ==
    (op \in ValidatingOps /\ wire # <<>>) =>
        (Accepted <=> ShouldAccept(LastXfer.pkt, LastXfer.seq, LastXfer.resp))

\* C1 witness: the final packet of a two-packet upload was validated and
\* accepted
C1_Witness ==
    /\ op = "writeBinaryMCU" /\ Len(wire) = 2 /\ ret = "True"
    /\ Len(LastXfer.resp) = 8

\* C6 as claimed: a method other than connectMCU called on a session that
\* is not connected fails at once, with no write and no read.
C6_NoIoWhenDisconnected ==
    (op \notin {"", "connectMCU"} /\ ~was_connected) =>
        (wire = <<>> /\ ret # "True")

\* C7: after a successful sync and then N query / erase-all commands that
\* all returned True (and nothing else), package_no is 1 + 2N.
C7_SequenceAfterN == clean => package_no = 1 + 2 * n_ok

\* C7 witness: the third successful command after the sync is an erase-all
C7_Witness == clean /\ n_ok = 3 /\ op = "eraseAllMCU" /\ ret = "True"

\* the commands of claim C8
FrameOps == {"readConfigMCU", "readDeviceIDMCU", "readFirmwareVersionMCU",
             "syncMCU", "eraseAllMCU"}

\* this step is one of those commands, sent, with nothing read back
EmptyAnswerStep ==
    op' \in FrameOps /\ wire' # <<>> /\ wire'[1].resp = <<>>

\* C8 as claimed: such a command leaves the sequence number, the device id,
\* the firmware version and both configuration words as they were.
C8_Original ==
    [][EmptyAnswerStep =>
          /\ package_no' = package_no
          /\ device_id' = device_id
          /\ firmware_version' = firmware_version
          /\ config_0' = config_0
          /\ config_1' = config_1]_vars

\* C8 amended: such a command returns False and leaves the connection
\* status, the device id, the firmware version and both configuration words
\* as they were; the sequence number has been advanced by 2 before the
\* packet was sent (reset to 1 by sync) and stays so.
C8_EmptyResponseFrame ==
    [][EmptyAnswerStep =>
          /\ ret' = "False"
          /\ mcu_connect_status' = mcu_connect_status
          /\ device_id' = device_id
          /\ firmware_version' = firmware_version
          /\ config_0' = config_0
          /\ config_1' = config_1
          /\ package_no' = (IF op' = "syncMCU" THEN 1 ELSE package_no + 2)]_vars

\* C8 witness: a firmware-version query got no answer on a session that had
\* read a device id and a configuration before
C8_Witness ==
    /\ op = "readFirmwareVersionMCU" /\ wire # <<>> /\ wire[1].resp = <<>>
    /\ ret = "False"
    /\ device_id # 0 /\ config_1 # 0 /\ package_no = 7

\* C9 as claimed: every packet written to the serial channel has 64 bytes.
C9_AllPackets64 == \A i \in 1..Len(wire) : Len(wire[i].pkt) = BUFFER_LEN

\* ceil(a / b)
CeilDiv(a, b) == (a + b - 1) \div b

\* an upload ran on a connected session
UploadDone == op = "writeBinaryMCU" /\ was_connected /\ exc = ""

\* the image length announced in bytes 12..15 of the upload's first packet
SentLen == LE32(wire[1].pkt, 12)

\* the number of image bytes in the upload's last packet, and where they start
LastCount ==
    IF Len(wire) = 1
    THEN SentLen
    ELSE SentLen - (BUFFER_LEN - HEADER_FIRST)
                 - (BUFFER_LEN - HEADER_NEXT) * (Len(wire) - 2)

LastStart == IF Len(wire) = 1 THEN HEADER_FIRST ELSE HEADER_NEXT

C2_BoundedIterations ==
    iters * POLL_STEP <= mcu_connection_timeout + (POLL_STEP - 1)

\* C3 as claimed: no update-APROM packet is written in a polling iteration
\* in which a sync or the erase-all failed.
C3_NoUploadAfterFailure == ~(iter_failed /\ iter_upload)

\* the Programmed outcome: Program "OK", "Not Timeout", the loop left
Programmed ==
    /\ pc = "done"
    /\ return_dict.Program = "OK"
    /\ return_dict.Timeout = "Not Timeout"

\* C4 as claimed: the Programmed outcome is reached only if the response to
\* the upload's final packet passed validation (writeBinaryMCU returned True).
C4_ProgrammedOnlyIfUploaded == Programmed => upload_ret = "True"

\* C5 as claimed: when the firmware file cannot be read, nothing has been
\* written to the serial channel.
C5_ImageReadBeforeIo == (pc = "crashed" /\ exc = "OSError") => ~any_io

\* the code of the terminal command the flags ask for by the claimed
\* priority, reset first; mcuLoadSoftware's reset_mcu_stat is flags.reset
RequestedTerminal ==
    IF flags.reset THEN <<CMD_RESET>>
    ELSE IF flags.run_aprom THEN <<CMD_RUN_APROM>>
    ELSE IF flags.run_ldrom THEN <<CMD_RUN_LDROM>>
    ELSE <<>>

\* C11 as claimed: a driver that has left the loop after the upload has
\* transmitted exactly the terminal command its flags select by priority
\* (reset 0xAD, else run-APROM 0xAB, else run-LDROM 0xAC, else none), and
\* never more than one, in main and in mcuLoadSoftware.
C11_TerminalByPriority ==
    /\ Len(terminal) <= 1
    /\ (pc = "done" /\ return_dict.Timeout = "Not Timeout") =>
           terminal = RequestedTerminal

\* this step is the driver's upload, and it wrote packets
UploadStep == op' = "writeBinaryMCU" /\ wire' # <<>>

\* C12: the call right before the driver's upload is a sync that succeeded,
\* so a successful sync lies between any erase-all packet and the first
\* update-APROM packet; that first packet is written with sequence number 3.
C12_SyncBeforeUpload ==
    [][UploadStep =>
          /\ op = "syncMCU" /\ ret = "True"
          /\ package_no = 1
          /\ wire'[1].pkt[1] = CMD_UPDATE_APROM
          /\ wire'[1].seq = 3
          /\ LE32(wire'[1].pkt, 4) = 3]_vars

\* C12 witness: an upload started after an erase-all that had failed
C12_Witness ==
    /\ op = "writeBinaryMCU" /\ wire # <<>> /\ wire[1].seq = 3
    /\ return_dict.Erase = "Checksum Error"

(***************************************************************************)
(* Further properties of the session's methods (Spec, SpecUpload).         *)
(***************************************************************************)
LeaveOps == {"resetMCU", "runAPROM", "runLDROM"}

\* C13 as claimed: resetMCU, runAPROM and runLDROM called on a connected
\* session write their packet and leave the session not connected whatever
\* is read back; a command other than connectMCU that follows fails its
\* connection test: it writes nothing, does not succeed, and the session
\* stays not connected.
C13_LeaveDisconnects ==
    [][/\ (op' \in LeaveOps /\ mcu_connect_status) =>
              (Len(wire') = 1 /\ ~mcu_connect_status')
       /\ (op \in LeaveOps /\ was_connected /\ op' # "connectMCU") =>
              (wire' = <<>> /\ ret' # "True" /\ ~mcu_connect_status')]_vars

\* C14 as claimed: after any call of syncMCU the package number is 1.
C14_Original == op = "syncMCU" => package_no = 1

\* C14 amended: syncMCU called on a connected session writes its packet under
\* package number 1 and leaves the package number 1, whatever it was before
\* and whatever is read back; called on a session that is not connected it
\* returns False, writes nothing and leaves the package number as it was.
C14_SyncResets ==
    [][op' = "syncMCU" =>
          IF mcu_connect_status
          THEN /\ package_no' = 1
               /\ Len(wire') = 1 /\ wire'[1].seq = 1
               /\ LE32(wire'[1].pkt, 4) = 1
          ELSE /\ package_no' = package_no
               /\ wire' = <<>> /\ ret' = "False"]_vars

\* C14 witness: a sync on a connected session was answered with an invalid
\* response and left the package number 1
C14_Witness ==
    /\ op = "syncMCU" /\ was_connected /\ ret = "None"
    /\ wire[1].resp # <<>>
    /\ package_no = 1

\* C15: connectMCU called on a session that is not connected writes one
\* connect packet under package number 1, raises nothing, and returns the
\* connection status it leaves; that status is true exactly when the
\* response has at least 8 bytes and carries that packet's checksum and
\* the sequence number 2, so an empty or an invalid response leaves it false.
C15_ConnectOutcome ==
    (op = "connectMCU" /\ ~was_connected) =>
        /\ Len(wire) = 1
        /\ wire[1].pkt = CommandPacket(CMD_CONNECT, 1)
        /\ wire[1].seq = 1 /\ package_no = 1
        /\ exc = ""
        /\ ret = (IF mcu_connect_status THEN "True" ELSE "False")
        /\ mcu_connect_status <=>
               ShouldAccept(wire[1].pkt, 1, wire[1].resp)

\* C15 witness: a connect answered with the right checksum and a wrong
\* sequence number left the session not connected
C15_Witness ==
    /\ op = "connectMCU" /\ ~was_connected /\ ret = "False"
    /\ Len(wire[1].resp) = BUFFER_LEN
    /\ SumBytes(wire[1].pkt) % 65536 = wire[1].resp[1] + 256 * wire[1].resp[2]

(***************************************************************************)
(* Further properties of the drivers (SpecRun).                            *)
(***************************************************************************)
\* C16 as claimed: when the driver has ended, after the upload, with the
\* budget used up, or by an error during the upload, the serial port its
\* session opened is closed.
C16_ChannelReleased == pc \in {"done", "crashed"} => ~isp_serial_open

\* the read timeouts below one second, in milliseconds
ShortTimeout(t) == t < 1000

\* C17 as claimed: every read of a call used the timeout of the call's own
\* command: 5 s for erase-all, 10 s for the upload's reads, and a timeout
\* below one second for every other command.
C17_TimeoutClass ==
    \A i \in 1..Len(wire) :
        CASE op = "eraseAllMCU" -> wire[i].timeout = TIMEOUT_ERASE
          [] op = "writeBinaryMCU" -> wire[i].timeout = TIMEOUT_PROGRAM
          [] OTHER -> ShortTimeout(wire[i].timeout)

(***************************************************************************)
(* Further properties of the upload (SpecUpload, Spec).                    *)
(***************************************************************************)
\* the packets an image of L bytes takes: 48 bytes in the first, 56 per later
PacketsFor(L) ==
    1 + CeilDiv(IF L > BUFFER_LEN - HEADER_FIRST
                THEN L - (BUFFER_LEN - HEADER_FIRST) ELSE 0,
                BUFFER_LEN - HEADER_NEXT)

\* C18: an upload on a connected session returns True when the response to
\* its last packet has that packet's checksum and its sequence number plus 1,
\* and False otherwise; whatever was read after the earlier packets, all
\* packets of the image were written.
C18_LastResponseDecides ==
    UploadDone =>
        /\ ret = (IF ShouldAccept(LastXfer.pkt, LastXfer.seq, LastXfer.resp)
                  THEN "True" ELSE "False")
        /\ LastXfer.seq = package_no
        /\ Len(wire) = PacketsFor(SentLen)

\* C18 witness: a three-packet upload whose first two packets were answered
\* with a wrong checksum returned True
C18_Witness ==
    /\ UploadDone /\ Len(wire) = 3 /\ ret = "True"
    /\ \A i \in 1..2 :
          /\ Len(wire[i].resp) = BUFFER_LEN
          /\ ~ShouldAccept(wire[i].pkt, wire[i].seq, wire[i].resp)

\* C19: every packet a call writes on a connected session holds in bytes
\* 4..7 the package number it is written under, little-endian; the last one
\* is written under the package number the session is left with; and except
\* for a sync, which starts again at 1, each packet's number is the number
\* of the packet written before it plus 2, within an upload and from the
\* last packet of one call to the first of the next (a call that writes
\* nothing leaves the package number alone).
C19_FreshSequence ==
    [][/\ (mcu_connect_status /\ wire' # <<>>) =>
          /\ \A i \in 1..Len(wire') :
                /\ Len(wire'[i].pkt) >= 8
                /\ LE32(wire'[i].pkt, 4) = wire'[i].seq
                /\ i > 1 => wire'[i].seq = wire'[i - 1].seq + 2
          /\ wire'[Len(wire')].seq = package_no'
          /\ wire'[1].seq = (IF op' = "syncMCU" THEN 1 ELSE package_no + 2)
       /\ (mcu_connect_status /\ wire' = <<>>) => package_no' = package_no]_vars

\* C19 witness: a two-packet upload on a connected session, its packets
\* numbered 5 and 7
C19_Witness ==
    /\ op = "writeBinaryMCU" /\ was_connected /\ Len(wire) = 2
    /\ wire[1].seq = 5 /\ wire[2].seq = 7
    /\ LE32(wire[2].pkt, 4) = 7

\* image bytes carried by the first packet and by each later packet
FirstRoom == BUFFER_LEN - HEADER_FIRST

NextRoom == BUFFER_LEN - HEADER_NEXT

\* the concatenated data regions of the packets written: bytes 16..63 of the
\* first packet, bytes 8..63 of every later one; DataByte(i) is its i-th byte
DataLen == FirstRoom + NextRoom * (Len(wire) - 1)

DataByte(i) ==
    IF i <= FirstRoom
    THEN wire[1].pkt[HEADER_FIRST + i]
    ELSE wire[2 + ((i - FirstRoom - 1) \div NextRoom)]
             .pkt[HEADER_NEXT + 1 + ((i - FirstRoom - 1) % NextRoom)]

\* C20: an upload on a connected session writes packets of 64 bytes; the
\* first holds the update-APROM code in byte 0, address 0 in bytes 8..11 and
\* the image length in bytes 12..15; the data regions of the packets, taken
\* in order, hold the image bytes in order, each once, and zeros after the
\* last image byte.
C20_ImageInOrder ==
    UploadDone =>
        /\ \A p \in 1..Len(wire) : Len(wire[p].pkt) = BUFFER_LEN
        /\ wire[1].pkt[1] = CMD_UPDATE_APROM
        /\ LE32(wire[1].pkt, 8) = 0
        /\ SentLen <= DataLen
        /\ Len(wire) > 1 => SentLen > DataLen - NextRoom
        /\ \A i \in 1..DataLen :
              DataByte(i) = (IF i <= SentLen THEN Image(SentLen)[i] ELSE 0)

\* C20 witness: an image of 110 bytes went out in three packets, its last
\* byte in the third
C20_Witness ==
    /\ UploadDone /\ SentLen = 110 /\ Len(wire) = 3
    /\ wire[3].pkt[HEADER_NEXT + 6] = Image(110)[110]
    /\ wire[3].pkt[HEADER_NEXT + 7] = 0

(***************************************************************************)
(* The query commands on validated responses (Spec).                       *)
(***************************************************************************)
ReadOps == {"readConfigMCU", "readDeviceIDMCU", "readFirmwareVersionMCU"}

\* C21 as claimed: a query command whose response passed validation, however
\* long the response is beyond its 8 validated bytes, returns True or False
\* and raises nothing.
C21_ValidatedNeverRaises ==
    (/\ op \in ReadOps /\ wire # <<>>
     /\ ShouldAccept(LastXfer.pkt, LastXfer.seq, LastXfer.resp)) =>
        (exc = "" /\ ret \in {"True", "False"})

=============================================================================
